---- MODULE Spec2Model ----
(***************************************************************************)
(* A model of targ, a declarative command-line argument parser.            *)
(*                                                                         *)
(*   src/targ.hpp   AbstractParser, AbstractArgument, PositionalArgument,  *)
(*                  Option<T>, Switch, parse<T>                            *)
(*   src/unix.hpp   UnixParser (metaparser, shouldTest, the "-" and "--"   *)
(*                  prefixes)                                              *)
(*   src/demo.cpp   SampleParser, the parser type that is parsed into      *)
(*                                                                         *)
(* Strings are sequences of one-character strings.  The token index i is   *)
(* 0-based as in the source; Argv(n) is argv[n].                           *)
(***************************************************************************)
EXTENDS Integers, Sequences, FiniteSets, TLC

(***************************************************************************)
(* Bounds of the model.                                                    *)
(***************************************************************************)
\* the largest argc (program path included) an explored command line has
MaxArgc == 4

(***************************************************************************)
(* Characters and tokens.                                                  *)
(***************************************************************************)
\* std::string::operator[](size()) yields the terminating '\0'
NUL == "NUL"

Str_empty   == << >>
Str_prog    == <<"p", "r", "o", "g">>
Str_dd      == <<"-", "-">>
Str_dash_o  == <<"-", "o">>
Str_out_bin == <<"o", "u", "t", ".", "b", "i", "n">>
Str_a_out   == <<"a", ".", "o", "u", "t">>
Str_dash_S  == <<"-", "S">>
Str_S       == <<"S">>
Str_verbose == <<"v", "e", "r", "b", "o", "s", "e">>
Str_arch    == <<"a", "r", "c", "h">>
Str_output  == <<"o", "u", "t", "p", "u", "t">>
Str_multiple == <<"m", "u", "l", "t", "i", "p", "l", "e">>

\* the strings a command line is built from
Tokens ==
    { Str_prog, Str_dd, Str_dash_o, Str_out_bin, Str_dash_S, Str_S, Str_empty }

\* the command lines explored: argv[0] (the program path) plus up to
\* MaxArgc - 1 further tokens; main's argv[0..argc-1]
CommandLines == UNION { [1..n -> Tokens] : n \in 1..MaxArgc }

\* values an uninitialized char member may hold: a character that occurs in
\* some flag, the dash, and "#", standing for any character no token contains
UninitChars == { "S", "-", "#" }

(***************************************************************************)
(* std::string operations used by the source.                              *)
(***************************************************************************)
\* str.starts_with(prefix)
starts_with(str, prefix) ==
    /\ Len(prefix) <= Len(str)
    /\ SubSeq(str, 1, Len(prefix)) = prefix

\* str[n], n 0-based; str[str.size()] is '\0'
CharAt(str, n) == IF n < Len(str) THEN str[n + 1] ELSE NUL

\* str.substr(pos), pos 0-based and pos <= str.size()
substr(str, pos) == SubSeq(str, pos + 1, Len(str))

(***************************************************************************)
(* The prefixes.  AbstractParser declares shortOptPrefix and longOptPrefix *)
(* (default-constructed: empty); UnixParser declares members of the same   *)
(* names, which hide the base's only in UnixParser's own scope.            *)
(***************************************************************************)
AbstractParser_shortOptPrefix == << >>
AbstractParser_longOptPrefix  == << >>
UnixParser_shortOptPrefix == <<"-">>
UnixParser_longOptPrefix  == <<"-", "-">>

\* parser->shortOptPrefix, parser an AbstractParser*: data members are not
\* virtual, the name is looked up in AbstractParser
ParserShortOptPrefix == AbstractParser_shortOptPrefix
ParserLongOptPrefix  == AbstractParser_longOptPrefix

(***************************************************************************)
(* The descriptors of SampleParser, in declaration order.                  *)
(*   type   "bool" (Switch), "string" (scalar), "vector", "optional"       *)
(*   tag    the tag member of the most derived class                       *)
(* The char constructor leaves longName default-constructed (empty); the   *)
(* string constructor leaves shortName uninitialized.                      *)
(***************************************************************************)
OptionDesc(n, t, s, l) ==
    [name |-> n, kind |-> "Option", tag |-> "option_tag", type |-> t,
     shortName |-> s, longName |-> l]

IdxAssemblyOut == 1
IdxVerbose     == 2
IdxLang        == 3
IdxArch        == 4
IdxOutFilePath == 5
IdxMultiple    == 6

\* the args vector after SampleParser's construction; c is the value the
\* uninitialized shortName of arch happens to hold
SampleParserArgs(c) ==
    << OptionDesc("assemblyOut", "bool",   "S", Str_empty),
       OptionDesc("verbose",     "bool",   "v", Str_verbose),
       OptionDesc("lang",        "string", "x", Str_empty),
       OptionDesc("arch",        "string", c,   Str_arch),
       OptionDesc("outFilePath", "string", "o", Str_output),
       OptionDesc("multiple",    "vector", "m", Str_multiple) >>

NumArgs == 6

\* the value slots after SampleParser's construction: a bool member is left
\* uninitialized (b1, b2 are what the two switches happen to hold), a string
\* and a vector are empty, and the constructor body sets outFilePath
SampleParserValues(b1, b2) ==
    << b1, b2, Str_empty, Str_empty, Str_a_out, << >> >>

VARIABLES
    argv,          \* the command line, argv[0] first
    archShortName, \* the shortName member of arch, which no constructor sets
    value,         \* value[k]: the value slot of args[k]
    parseOptions,  \* UnixParser::parseOptions
    prgmName,      \* AbstractParser::prgmName
    i,             \* parse's token index
    k,             \* position of the range-for over parser.args (1-based)
    pc,            \* "start", "meta", "scan", "done" (returned), "error" (threw)
    metaOffered,   \* history: indices whose token was passed to metaparser
    metaConsumed,  \* history: indices metaparser consumed
    parseOffered,  \* history: <<index, k>>: args[k]->parseArg was called at index
    consumed,      \* history: <<index, k, role>>: args[k] consumed the token at
                   \* index as its "flag" or as its "value"
    returned,      \* what parse's caller has received: {} (nothing yet, or an
                   \* exception), or {p}, p the parser object returned
    call,          \* a single call of parseArg on its own: descriptor, slot,
                   \* window and, once made, its result
    runs           \* parse applied as a function (ParseRun): in Spec, the
                   \* outcome it gives for this command line and parser; in
                   \* TwinSpec, two parses of one command line into two fresh
                   \* parsers, and their outcomes

\* the variables of the stand-alone applications of parseArg and parse
harness == << call, runs >>

vars == << argv, archShortName, value, parseOptions, prgmName, i, k, pc,
           metaOffered, metaConsumed, parseOffered, consumed, returned,
           call, runs >>

argc == Len(argv)

\* AbstractParser::args: filled by the descriptors' constructors, in
\* declaration order, and not changed by parse
args == SampleParserArgs(archShortName)
Argv(n) == argv[n + 1]

(***************************************************************************)
(* Option<T>::doesStrMatchOption                                           *)
(***************************************************************************)
doesStrMatchOption(d, str) ==
    \/ /\ starts_with(str, ParserShortOptPrefix)
       /\ CharAt(str, Len(ParserShortOptPrefix)) = d.shortName
    \/ /\ starts_with(str, ParserLongOptPrefix)
       /\ substr(str, Len(ParserLongOptPrefix)) = d.longName

(***************************************************************************)
(* parseArg(argc, argv) of descriptor d whose slot holds cur; n is the     *)
(* argc passed and av the window argv[0..n-1] (av[1] is argv[0]).          *)
(* The result: the count returned, the slot afterwards, whether            *)
(* ParsingError was thrown.                                                *)
(***************************************************************************)
Returned(n, v) == [ret |-> n, value |-> v, throws |-> FALSE]
Thrown(v)      == [ret |-> 0, value |-> v, throws |-> TRUE]

\* parseArg without the arity error: a flag with no token after it counts as
\* consumed alone
parseArg_NoArityError(d, cur, n, av) ==
    IF d.kind = "Positional"
    THEN Returned(0, cur)
    ELSE IF doesStrMatchOption(d, av[1])
         THEN CASE d.type = "bool"     -> Returned(1, TRUE)
                [] d.type = "vector"   -> Returned(0, cur)
                [] d.type = "optional" -> Returned(0, cur)
                [] OTHER               -> IF n > 1
                                          THEN Returned(2, av[2])
                                          ELSE Returned(1, cur)
         ELSE Returned(0, cur)

\* parseArg with a Scalar that keeps the first value it was given
parseArg_KeepsFirst(d, cur, n, av) ==
    IF d.kind = "Positional"
    THEN Returned(0, cur)
    ELSE IF doesStrMatchOption(d, av[1])
         THEN CASE d.type = "bool"     -> Returned(1, TRUE)
                [] d.type = "vector"   -> Returned(0, cur)
                [] d.type = "optional" -> Returned(0, cur)
                [] OTHER               -> IF n > 1
                                          THEN Returned(2, IF cur \in {Str_empty, Str_a_out}
                                                           THEN av[2] ELSE cur)
                                          ELSE Thrown(cur)
         ELSE Returned(0, cur)

\* parseArg with a Scalar that counts its value without looking whether there
\* is one
parseArg_OverConsumes(d, cur, n, av) ==
    IF d.kind = "Positional"
    THEN Returned(0, cur)
    ELSE IF doesStrMatchOption(d, av[1])
         THEN CASE d.type = "bool"     -> Returned(1, TRUE)
                [] d.type = "vector"   -> Returned(0, cur)
                [] d.type = "optional" -> Returned(0, cur)
                [] OTHER               -> IF n > 1
                                          THEN Returned(2, av[2])
                                          ELSE Returned(2, cur)
         ELSE Returned(0, cur)

parseArg(d, cur, n, av) ==
    IF d.kind = "Positional"
    THEN Returned(0, cur)
    ELSE IF doesStrMatchOption(d, av[1])
         THEN CASE d.type = "bool"     -> Returned(1, TRUE)
                [] d.type = "vector"   -> Returned(0, cur)
                [] d.type = "optional" -> Returned(0, cur)
                [] OTHER               -> IF n > 1
                                          THEN Returned(2, av[2])
                                          ELSE Thrown(cur)
         ELSE Returned(0, cur)

(***************************************************************************)
(* UnixParser::metaparser: whether arg is consumed, and parseOptions       *)
(* afterwards.                                                             *)
(***************************************************************************)
\* metaparser with "--" toggling the mode instead of clearing it
metaparser_Toggles(arg, po) ==
    IF arg = Str_dd
    THEN [consumed |-> TRUE, parseOptions |-> ~po]
    ELSE [consumed |-> FALSE, parseOptions |-> po]

metaparser(arg, po) ==
    IF arg = Str_dd
    THEN [consumed |-> TRUE, parseOptions |-> FALSE]
    ELSE [consumed |-> FALSE, parseOptions |-> po]

(***************************************************************************)
(* UnixParser::shouldTest.  arg is an AbstractArgument*, so arg->tag names *)
(* AbstractArgument::tag, a const any_tag; any_tag has no virtual member,  *)
(* so typeid yields the static type.                                       *)
(***************************************************************************)
TypeidOfTag(d) == "any_tag"

shouldTest(d, po) ==
    IF ~po /\ TypeidOfTag(d) = "positional_tag" THEN FALSE ELSE TRUE

\* the parser object as its fields: the slots, the mode, the program name
ParserObject(v, po, pn) == [value |-> v, parseOptions |-> po, prgmName |-> pn]

(***************************************************************************)
(* parse as a function of the command line and of the freshly constructed  *)
(* parser: the outcome of parse<SampleParser> started at index idx with    *)
(* slots vals and mode po; c is what arch's shortName holds.               *)
(*   how     "returned", "ParsingError", or "no return" (the loop spins)   *)
(*   parser  {p}, p the parser object returned, or {}                      *)
(***************************************************************************)
Outcome(h, ps) == [how |-> h, parser |-> ps]

\* the descriptors of SampleParserArgs(c) that do not return 0 on the window at
\* idx: they return a count or throw
Takers(av, c, vals, po, idx) ==
    { kk \in 1..NumArgs :
         LET d == SampleParserArgs(c)[kk]
             r == parseArg(d, vals[kk], Len(av) - idx,
                           SubSeq(av, idx + 1, Len(av)))
         IN  shouldTest(d, po) /\ (r.ret # 0 \/ r.throws) }

RECURSIVE ParseRun(_, _, _, _, _)
ParseRun(av, c, vals, po, idx) ==
    IF ~(idx < Len(av))
    THEN Outcome("returned", { ParserObject(vals, po, av[1]) })
    ELSE LET m == metaparser(av[idx + 1], po)
         IN  IF m.consumed
             THEN ParseRun(av, c, vals, m.parseOptions, idx + 1)
             ELSE LET ts == Takers(av, c, vals, m.parseOptions, idx)
                  IN  IF ts = {}
                      THEN Outcome("no return", {})
                      ELSE LET kk == CHOOSE t \in ts : \A u \in ts : t <= u
                               r  == parseArg(SampleParserArgs(c)[kk], vals[kk],
                                              Len(av) - idx,
                                              SubSeq(av, idx + 1, Len(av)))
                           IN  IF r.throws
                               THEN Outcome("ParsingError", {})
                               ELSE ParseRun(av, c,
                                             [vals EXCEPT ![kk] = r.value],
                                             m.parseOptions, idx + r.ret)

(***************************************************************************)
(* parse<SampleParser>                                                     *)
(***************************************************************************)
Init ==
    /\ argv \in CommandLines
    /\ archShortName \in UninitChars
    /\ \E b1 \in BOOLEAN, b2 \in BOOLEAN : value = SampleParserValues(b1, b2)
    /\ parseOptions = TRUE
    /\ prgmName = Str_empty
    /\ i = 0
    /\ k = 0
    /\ pc = "start"
    /\ metaOffered = {}
    /\ metaConsumed = {}
    /\ parseOffered = {}
    /\ consumed = {}
    /\ returned = {}
    /\ call = {}
    /\ runs = ParseRun(argv, archShortName, value, TRUE, 0)

\* parser.prgmName = argv[0]; int i = 0
SetPrgmName ==
    /\ pc = "start"
    /\ prgmName' = Argv(0)
    /\ i' = 0
    /\ pc' = "meta"
    /\ UNCHANGED << argv, archShortName, value, parseOptions, k,
                    metaOffered, metaConsumed, parseOffered, consumed,
                    returned, harness >>

\* Return with the exception caught inside parse: the parser is returned as
\* far as it got
Return_CatchesError ==
    /\ \/ pc = "meta" /\ ~(i < argc)
       \/ pc = "error"
    /\ pc' = "done"
    /\ returned' = { ParserObject(value, parseOptions, prgmName) }
    /\ UNCHANGED << argv, archShortName, value, parseOptions, prgmName, i, k,
                    metaOffered, metaConsumed, parseOffered, consumed,
                    harness >>

\* the loop test fails: return parser
Return ==
    /\ pc = "meta"
    /\ ~(i < argc)
    /\ pc' = "done"
    /\ returned' = { ParserObject(value, parseOptions, prgmName) }
    /\ UNCHANGED << argv, archShortName, value, parseOptions, prgmName, i, k,
                    metaOffered, metaConsumed, parseOffered, consumed,
                    harness >>

\* Metaparse with metaparser's result ignored: the hook runs, and the token
\* goes on to the descriptors whatever it answered
Metaparse_IgnoresResult ==
    /\ pc = "meta"
    /\ i < argc
    /\ LET m == metaparser(Argv(i), parseOptions)
       IN  /\ parseOptions' = m.parseOptions
           /\ metaOffered' = metaOffered \cup {i}
           /\ metaConsumed' = IF m.consumed THEN metaConsumed \cup {i}
                                            ELSE metaConsumed
           /\ i' = i
           /\ pc' = "scan"
           /\ k' = 1
    /\ UNCHANGED << argv, archShortName, value, prgmName, parseOffered,
                    consumed, returned, harness >>

\* if (parser.metaparser(argv[i])) { ++i; continue; }, else enter the range-for
Metaparse ==
    /\ pc = "meta"
    /\ i < argc
    /\ LET m == metaparser(Argv(i), parseOptions)
       IN  /\ parseOptions' = m.parseOptions
           /\ metaOffered' = metaOffered \cup {i}
           /\ IF m.consumed
              THEN /\ i' = i + 1
                   /\ pc' = "meta"
                   /\ k' = k
                   /\ metaConsumed' = metaConsumed \cup {i}
              ELSE /\ i' = i
                   /\ pc' = "scan"
                   /\ k' = 1
                   /\ metaConsumed' = metaConsumed
    /\ UNCHANGED << argv, archShortName, value, prgmName, parseOffered,
                    consumed, returned, harness >>

\* the range-for restarted at the new index instead of left: the next token
\* reaches the descriptors without passing the loop head
AfterConsumed_Rescan(kk) == [pc |-> "scan", k |-> 1]

\* the break missing: the range-for goes on with the next descriptor
AfterConsumed_NoBreak(kk) == [pc |-> "scan", k |-> kk + 1]

\* where control goes when args[kk] returned a nonzero count: break leaves the
\* range-for, and the outer loop tests i < argc next
AfterConsumed(kk) == [pc |-> "meta", k |-> kk]

\* one pass of the range-for body on args[k]; the range-for is only entered
\* under the loop test i < argc
TestArg ==
    /\ pc = "scan"
    /\ k <= Len(args)
    /\ i < argc
    /\ IF shouldTest(args[k], parseOptions)
       THEN LET r == parseArg(args[k], value[k], argc - i,
                              SubSeq(argv, i + 1, argc))
            IN  /\ parseOffered' = parseOffered \cup {<<i, k>>}
                /\ value' = [value EXCEPT ![k] = r.value]
                /\ IF r.throws
                   THEN /\ pc' = "error"
                        /\ UNCHANGED << i, k, consumed >>
                   ELSE IF r.ret # 0
                        THEN /\ i' = i + r.ret
                             /\ pc' = AfterConsumed(k).pc
                             /\ k' = AfterConsumed(k).k
                             /\ consumed' = consumed
                                    \cup {<<i, k, "flag">>}
                                    \cup {<<j, k, "value">> :
                                             j \in (i + 1)..(i + r.ret - 1)}
                        ELSE /\ k' = k + 1
                             /\ UNCHANGED << i, pc, consumed >>
       ELSE /\ k' = k + 1
            /\ UNCHANGED << i, pc, value, parseOffered, consumed >>
    /\ UNCHANGED << argv, archShortName, parseOptions, prgmName,
                    metaOffered, metaConsumed, returned, harness >>

\* the range-for ran off the end of args without a break: the for statement
\* has no increment, so the outer loop tests i < argc again with i as it was
EndScan ==
    /\ pc = "scan"
    /\ k > Len(args)
    /\ pc' = "meta"
    /\ UNCHANGED << argv, archShortName, value, parseOptions, prgmName, i, k,
                    metaOffered, metaConsumed, parseOffered, consumed,
                    returned, harness >>

Next ==
    \/ SetPrgmName
    \/ Metaparse
    \/ TestArg
    \/ EndScan
    \/ Return

Spec == Init /\ [][Next]_vars

\* parse is one sequential call: while it has a next step, it takes it
FairSpec == Spec /\ WF_vars(Next)

(***************************************************************************)
(* parseArg on its own: one call of a descriptor's parseArg(argc, argv),   *)
(* for the descriptor classes SampleParser does not use (a                 *)
(* PositionalArgument, an Option of an optional type) and for its          *)
(* vector Option, on every window of up to MaxWindow tokens.               *)
(***************************************************************************)
\* the longest window a stand-alone call of parseArg is given
MaxWindow == 3

Str_m      == <<"m">>
Str_dash_m == <<"-", "m">>
Str_p      == <<"p">>
Str_file   == <<"f", "i", "l", "e">>

UnitTokens == { Str_m, Str_dash_m, Str_p, Str_file, Str_dd }

UnitWindows == UNION { [1..n -> UnitTokens] : n \in 1..MaxWindow }

\* a PositionalArgument<std::string>; it has a name and a value only, the
\* flag fields are there for the record's shape and are never read
PositionalDesc(n, t) ==
    [name |-> n, kind |-> "Positional", tag |-> "positional_tag", type |-> t,
     shortName |-> NUL, longName |-> Str_empty]

\* an optional's value is {} (std::nullopt) or {v}
UnitDescs ==
    { PositionalDesc("input", "string"),
      OptionDesc("multiple", "vector", "m", Str_multiple),
      OptionDesc("maybe", "optional", "p", Str_empty) }

\* a default-constructed value slot
DefaultSlot(d) ==
    CASE d.type = "vector"   -> << >>
      [] d.type = "optional" -> {}
      [] OTHER               -> Str_empty

UnitInit ==
    /\ call \in { [d |-> d, cur |-> DefaultSlot(d), av |-> w, res |-> {}] :
                     d \in UnitDescs, w \in UnitWindows }
    /\ argv = <<Str_file>>
    /\ archShortName = "#"
    /\ value = SampleParserValues(FALSE, FALSE)
    /\ parseOptions = TRUE
    /\ prgmName = Str_empty
    /\ i = 0
    /\ k = 0
    /\ pc = "unit"
    /\ metaOffered = {}
    /\ metaConsumed = {}
    /\ parseOffered = {}
    /\ consumed = {}
    /\ returned = {}
    /\ runs = {}

\* call.d->parseArg(argc, argv) with argv the window call.av
CallParseArg ==
    /\ pc = "unit"
    /\ call.res = {}
    /\ call' = [call EXCEPT
                  !.res = { parseArg(call.d, call.cur, Len(call.av), call.av) }]
    /\ UNCHANGED << argv, archShortName, value, parseOptions, prgmName, i, k,
                    pc, metaOffered, metaConsumed, parseOffered, consumed,
                    returned, runs >>

UnitNext == CallParseArg

UnitSpec == UnitInit /\ [][UnitNext]_vars

(***************************************************************************)
(* Two parses of one command line, each into its own freshly constructed   *)
(* SampleParser.                                                           *)
(***************************************************************************)
\* the largest argc of a command line parsed twice
MaxTwinArgc == 2

TwinCommandLines == UNION { [1..n -> Tokens] : n \in 1..MaxTwinArgc }

\* a freshly constructed SampleParser: what its uninitialized members hold
FreshParsers ==
    { [c |-> c, vals |-> SampleParserValues(b1, b2)] :
         c \in UninitChars, b1 \in BOOLEAN, b2 \in BOOLEAN }

TwinInit ==
    /\ runs \in { [av |-> a, p1 |-> x, p2 |-> y, out |-> {}] :
                     a \in TwinCommandLines, x \in FreshParsers,
                     y \in FreshParsers }
    /\ argv = <<Str_file>>
    /\ archShortName = "#"
    /\ value = SampleParserValues(FALSE, FALSE)
    /\ parseOptions = TRUE
    /\ prgmName = Str_empty
    /\ i = 0
    /\ k = 0
    /\ pc = "twin"
    /\ metaOffered = {}
    /\ metaConsumed = {}
    /\ parseOffered = {}
    /\ consumed = {}
    /\ returned = {}
    /\ call = {}

\* parse<SampleParser>(argc, argv), twice; UnixParser starts with
\* parseOptions = true
ParseTwice ==
    /\ pc = "twin"
    /\ runs.out = {}
    /\ runs' = [runs EXCEPT
                  !.out = { << ParseRun(runs.av, runs.p1.c, runs.p1.vals, TRUE, 0),
                               ParseRun(runs.av, runs.p2.c, runs.p2.vals, TRUE, 0) >> }]
    /\ UNCHANGED << argv, archShortName, value, parseOptions, prgmName, i, k,
                    pc, metaOffered, metaConsumed, parseOffered, consumed,
                    returned, call >>

TwinNext == ParseTwice

TwinSpec == TwinInit /\ [][TwinNext]_vars

\* parse, step by step, arrives where ParseRun says; runs holds what ParseRun
\* gave for this command line and this freshly constructed parser
ParseRunAgreesWithParse ==
    pc \in {"start", "meta", "scan", "done", "error"} =>
        /\ pc = "done"  => runs = Outcome("returned", returned)
        /\ pc = "error" => runs = Outcome("ParsingError", {})
        /\ (pc = "scan" /\ k > Len(args)) => runs = Outcome("no return", {})
        /\ runs.how = "no return" => pc \notin {"done", "error"}

TypeOK ==
    /\ argv \in CommandLines
    /\ parseOptions \in BOOLEAN
    /\ i \in 0..(MaxArgc + 1)
    /\ k \in 0..(NumArgs + 1)
    /\ pc \in {"start", "meta", "scan", "done", "error"}
    /\ metaOffered \subseteq 0..MaxArgc
    /\ metaConsumed \subseteq metaOffered

(***************************************************************************)
(* Notions the properties share.                                           *)
(***************************************************************************)
\* the window &argv[idx] that parse passes to parseArg at index idx
Window(idx) == SubSeq(argv, idx + 1, argc)

\* what args[kk]->parseArg(argc - idx, &argv[idx]) gives in the current state
ParseArgAt(kk, idx) == parseArg(args[kk], value[kk], argc - idx, Window(idx))

\* no meta-hook and no descriptor takes the token at idx
Unrecognized(idx) ==
    /\ ~metaparser(Argv(idx), parseOptions).consumed
    /\ \A kk \in 1..Len(args) :
          /\ ParseArgAt(kk, idx).ret = 0
          /\ ~ParseArgAt(kk, idx).throws

\* the spellings of an Option under the Unix convention of src/unix.hpp:
\* "-" then the short name, "--" then the long name (when it has one)
UnixSpellings(d) ==
    { UnixParser_shortOptPrefix \o <<d.shortName>> }
    \cup (IF d.longName = Str_empty THEN {}
          ELSE { UnixParser_longOptPrefix \o d.longName })

Switches == { kk \in 1..NumArgs : SampleParserArgs("#")[kk].type = "bool" }

(***************************************************************************)
(* C1: when the token at the loop's current index is taken neither by      *)
(* metaparser nor by any descriptor, parse ends with an explicit error:    *)
(* the step that finds the range-for exhausted raises.                     *)
(***************************************************************************)
C1_UnrecognizedTokenRaises ==
    [][ (pc = "scan" /\ k > Len(args) /\ i < argc /\ Unrecognized(i))
            => pc' = "error" ]_vars

(***************************************************************************)
(* C2: a command line that holds only the program path (here the path     *)
(* "prog") is parsed to normal completion, and outFilePath then still      *)
(* holds its default "a.out".                                              *)
(***************************************************************************)
C2_ProgramPathOnlyCompletes ==
    (pc = "start" /\ argv = <<Str_prog>>)
        ~> (pc = "done" /\ value[IdxOutFilePath] = Str_a_out)

(***************************************************************************)
(* C3: given the tokens "-o" "out.bin" at its index, the parseArg of the   *)
(* Scalar option with short name 'o' stores "out.bin" and the index        *)
(* advances by exactly 2.                                                  *)
(***************************************************************************)
C3_DashOStoresValue ==
    [][ ( /\ pc = "scan"
          /\ k = IdxOutFilePath
          /\ i + 1 < argc
          /\ Argv(i) = Str_dash_o
          /\ Argv(i + 1) = Str_out_bin )
            => (value'[IdxOutFilePath] = Str_out_bin /\ i' = i + 2) ]_vars

(***************************************************************************)
(* C4: when a Scalar option's parseArg is given its flag as the last token *)
(* of the input, it raises ParsingError, returns no count (the index stays)*)
(* and leaves every slot as it was.                                        *)
(***************************************************************************)
ScalarFlagIsLast ==
    /\ pc = "scan"
    /\ k <= Len(args)
    /\ args[k].type = "string"
    /\ i = argc - 1
    /\ doesStrMatchOption(args[k], Argv(i))

C5_SwitchTokenSetsTrue ==
    [][ ( /\ pc = "scan"
          /\ k \in Switches
          /\ i < argc
          /\ Argv(i) \in UnixSpellings(args[k]) )
            => value'[k] = TRUE ]_vars

(***************************************************************************)
(* C6: when no token of the command line spells a declared Switch, the     *)
(* Switch's value is false once parse has completed.                       *)
(***************************************************************************)
C6_SwitchDefaultsFalse ==
    \A s \in Switches :
        ( /\ pc = "done"
          /\ \A j \in 0..(argc - 1) : Argv(j) \notin UnixSpellings(args[s]) )
            => value[s] = FALSE

(***************************************************************************)
(* C7: once metaparser has consumed "--" (parseOptions is false), every    *)
(* Option descriptor is skipped by shouldTest, so no step of the parse     *)
(* changes an Option's slot any more.                                      *)
(***************************************************************************)
C7_NoOptionAfterMarker ==
    [][ ~parseOptions => value' = value ]_vars

(***************************************************************************)
(* C8: a token metaparser consumes at the loop's current index is never    *)
(* passed to a descriptor's parseArg, and consuming it advances the index  *)
(* by exactly 1 and changes no value slot.                                 *)
(***************************************************************************)
C8_NeverOffered ==
    \A idx \in metaConsumed : \A kk \in 1..Len(args) : <<idx, kk>> \notin parseOffered

C8_Step ==
    (pc = "meta" /\ i < argc /\ metaparser(Argv(i), parseOptions).consumed)
        => (i' = i + 1 /\ value' = value /\ parseOffered' = parseOffered)

C8_MetaTokenBypassesDescriptors ==
    [] C8_NeverOffered /\ [][C8_Step]_vars

\* metaparser consumed a token and parse went on to give a later token to a
\* descriptor
C8_Witness ==
    \E idx \in metaConsumed : \E o \in parseOffered : o[1] > idx

(***************************************************************************)
(* C9 as stated: no token is consumed by a descriptor, as a flag or as a   *)
(* value, without first having been offered to metaparser.                 *)
(***************************************************************************)
C9_EveryConsumedTokenWasOffered ==
    \A c \in consumed : c[1] \in metaOffered

(***************************************************************************)
(* C9 amended: every token passed to a descriptor's parseArg as its        *)
(* current token, hence every token a descriptor consumes as a flag, was   *)
(* offered to metaparser first; a token that a Scalar option consumes as   *)
(* its value is never offered to metaparser.                               *)
(***************************************************************************)
C9_FlagsOfferedValuesNot ==
    /\ \A o \in parseOffered : o[1] \in metaOffered
    /\ \A c \in consumed :
          IF c[3] = "flag" THEN c[1] \in metaOffered
                           ELSE c[1] \notin metaOffered

\* parse completed having taken a "--" as a Scalar's value, which metaparser
\* never saw, after a flag it had seen
C9_Witness ==
    /\ pc = "done"
    /\ \E c \in consumed :
          /\ c[3] = "value"
          /\ Argv(c[1]) = Str_dd
          /\ c[1] \notin metaOffered
          /\ <<c[1] - 1, c[2], "flag">> \in consumed
          /\ (c[1] - 1) \in metaOffered

(***************************************************************************)
(* C10: when several descriptors would accept the token at the current     *)
(* index, the one earliest in args consumes it; the step changes no other  *)
(* descriptor's slot.                                                      *)
(***************************************************************************)
\* args[kk] would return a nonzero count for the token at idx
WouldAccept(kk, idx) ==
    /\ shouldTest(args[kk], parseOptions)
    /\ ParseArgAt(kk, idx).ret # 0

C10_EarliestDeclaredWins ==
    [][ (pc = "scan" /\ i' # i)
            => /\ WouldAccept(k, i)
               /\ \A j \in 1..Len(args) : WouldAccept(j, i) => k <= j
               /\ \A j \in 1..Len(args) : j # k => value'[j] = value[j] ]_vars

\* a token was consumed by a descriptor although a later one accepts it too
C10_Witness ==
    \E c \in consumed :
        /\ c[3] = "flag"
        /\ \E j \in (c[2] + 1)..Len(args) :
              /\ shouldTest(args[j], parseOptions)
              /\ ParseArgAt(j, c[1]).ret # 0

(***************************************************************************)
(* C11: an Option's parseArg recognizes the current token exactly when it  *)
(* is "-" followed by the short name or "--" followed by the long name;    *)
(* for every other token it returns 0 and changes nothing.                 *)
(***************************************************************************)
C11_RecognizesExactlyUnixSpellings ==
    [][ (pc = "scan" /\ k <= Len(args) /\ i < argc)
            => /\ doesStrMatchOption(args[k], Argv(i))
                     <=> Argv(i) \in UnixSpellings(args[k])
               /\ Argv(i) \notin UnixSpellings(args[k])
                     => (i' = i /\ value' = value /\ pc' = "scan") ]_vars

(***************************************************************************)
(* C12: a Positional descriptor given the token at the current index       *)
(* claims it: parseArg returns a positive count and the slot holds the     *)
(* token.                                                                  *)
(***************************************************************************)
C12_PositionalAlwaysClaims ==
    (pc = "unit" /\ call.d.kind = "Positional")
        => \A r \in call.res : r.ret > 0 /\ ~r.throws /\ r.value = call.av[1]

(***************************************************************************)
(* C13: when the current token is recognized as the flag of a vector       *)
(* Option, parseArg returns a positive count c within the window, and the  *)
(* slot is the old list followed by the c - 1 tokens after the flag.       *)
(***************************************************************************)
C13_RepeatedConsumes ==
    ( /\ pc = "unit"
      /\ call.d.type = "vector"
      /\ doesStrMatchOption(call.d, call.av[1]) )
        => \A r \in call.res :
              /\ ~r.throws
              /\ r.ret \in 1..Len(call.av)
              /\ r.value = call.cur \o SubSeq(call.av, 2, r.ret)

(***************************************************************************)
(* C14: when the current token is recognized as the flag of an optional    *)
(* Option, parseArg returns 2 with the slot set to the next token when     *)
(* there is one that is neither a flag nor the terminator, and otherwise   *)
(* returns 1 with the slot as it was.                                      *)
(***************************************************************************)
\* a token that starts with the Unix short prefix: a flag, or "--"
LooksLikeFlag(tok) == starts_with(tok, UnixParser_shortOptPrefix)

C14_OptionalConsumes ==
    ( /\ pc = "unit"
      /\ call.d.type = "optional"
      /\ doesStrMatchOption(call.d, call.av[1]) )
        => \A r \in call.res :
              /\ ~r.throws
              /\ IF Len(call.av) > 1 /\ ~LooksLikeFlag(call.av[2])
                 THEN r.ret = 2 /\ r.value = { call.av[2] }
                 ELSE r.ret = 1 /\ r.value = call.cur

(***************************************************************************)
(* C15: when a descriptor's parseArg raises ParsingError, parse stops at   *)
(* once: the raising step moves no index and changes no slot, no step      *)
(* follows it, and the caller has received no parser object.               *)
(***************************************************************************)
C15_Raise ==
    pc' = "error" => (i' = i /\ value' = value /\ metaOffered' = metaOffered)

C15_ErrorAbortsParse ==
    /\ [] (pc = "error" => returned = {})
    /\ [][ pc # "error" /\ C15_Raise ]_vars

\* parse has thrown after an earlier token had been matched and applied
C15_Witness ==
    pc = "error" /\ consumed # {} /\ returned = {}

(***************************************************************************)
(* C16: parsing the same command line into two freshly constructed         *)
(* parsers gives the same outcome: the same kind of termination and, on    *)
(* normal completion, parser objects equal field for field.                *)
(***************************************************************************)
C16_FreshInstancesAgree ==
    pc = "twin" => \A o \in runs.out : o[1] = o[2]

(***************************************************************************)
(* C17: each time a Scalar option consumes its flag and the value after    *)
(* it, the slot is overwritten: at any moment the slot of a Scalar that    *)
(* has matched holds the token after the last flag it consumed.            *)
(***************************************************************************)
Scalars == { kk \in 1..NumArgs : SampleParserArgs("#")[kk].type = "string" }

\* the indices at which args[kk] has consumed its flag
FlagsOf(kk) == { c[1] : c \in { x \in consumed : x[2] = kk /\ x[3] = "flag" } }

C18_IndexInv ==
    /\ 0 <= i /\ i <= argc
    /\ \A o \in parseOffered : o[1] < argc
    /\ \A c \in consumed : c[1] < argc
    /\ pc = "scan" => i < argc
    /\ pc = "done" => i = argc

C18_IndexStaysInRange ==
    [] C18_IndexInv /\ [][ i' >= i ]_vars

\* parse returned after a Scalar took the last token as its value
C18_Witness ==
    /\ pc = "done"
    /\ i = argc
    /\ \E c \in consumed : c[3] = "value" /\ c[1] = argc - 1

(***************************************************************************)
(* C19: the program path argv[0] is only recorded as prgmName: while the   *)
(* index is 0 no step changes a value slot or parseOptions, and argv[0]    *)
(* is consumed neither by metaparser nor by a descriptor.                  *)
(***************************************************************************)
C19_ProgramPathIsNotParsed ==
    [][ i = 0 => /\ value' = value
                 /\ parseOptions' = parseOptions
                 /\ consumed' = consumed
                 /\ metaConsumed' = metaConsumed ]_vars

(***************************************************************************)
(* C20: parseOptions is true when parse starts, changes only when          *)
(* metaparser consumes "--" (from true to false), and once false stays     *)
(* false; a later "--" is consumed as well and leaves it false.            *)
(***************************************************************************)
C20_Step ==
    /\ parseOptions' # parseOptions
          => (pc = "meta" /\ Argv(i) = Str_dd /\ parseOptions /\ ~parseOptions')
    /\ (pc = "meta" /\ i < argc /\ Argv(i) = Str_dd)
          => (~parseOptions' /\ i' = i + 1 /\ metaConsumed' = metaConsumed \cup {i})

C20_ParseOptionsMonotone ==
    [] (pc = "start" => parseOptions) /\ [][ C20_Step ]_vars

\* metaparser has consumed "--" twice
C20_Witness ==
    /\ ~parseOptions
    /\ \E a \in metaConsumed, b \in metaConsumed : a < b
====
